---- MODULE Spec2Model ----
(***************************************************************************)
(* LettaMemGPTServer (src/src/index.ts): an MCP tool server that routes    *)
(* chat calls to one of four LLM providers, logs every exchange in a       *)
(* SQLite table and keeps the current provider in memory, in a durable     *)
(* settings row and in an external settings file.                          *)
(*                                                                         *)
(* A handler is modelled by one action per stretch of code between two     *)
(* awaits on the outside world (network, database, settings file).  Each   *)
(* tool has a slot holding the position of its call in flight and, once    *)
(* the handler has returned or thrown, the result on its way to the        *)
(* caller.  Under Spec the caller sends the next call after it received    *)
(* the result of the previous one.                                         *)
(***************************************************************************)
EXTENDS Integers, Sequences, FiniteSets, TLC

(* ------------------------------ bounds -------------------------------- *)
\* tool calls the caller sends over a behaviour
MaxCalls == 3
\* times the process is ended and started again over a behaviour
MaxRestarts == 1
\* largest number given as args.limit
MaxLimit == 2
\* last value of the store's clock (CURRENT_TIMESTAMP, one-second steps; the
\* seconds that pass between two INSERTs are chosen at the later one)
MaxClock == 1

(* --------------------------- program constants ------------------------ *)
NoVal == "none"
DEFAULT_USER == "default_user"
DEFAULT_LIMIT == 10

\* a validProviders that lets an unregistered identifier through
validProvidersWithChatgpt == {"openai", "anthropic", "openrouter", "ollama", "chatgpt"}
\* handleUseProvider: const validProviders
validProviders == {"openai", "anthropic", "openrouter", "ollama"}
\* the keys of the currentModel object
modelKeys == {"openai", "openrouter", "anthropic", "ollama"}
\* the providers whose query function checks an API key first
keyProviders == {"openai", "anthropic", "openrouter"}

\* A model name is the sequence of its parts, "/" being a part of its own.
gpt35 == <<"gpt-3.5-turbo">>
orGpt35 == <<"openai", "/", "gpt-3.5-turbo">>
claude2 == <<"claude-2">>
llama33 == <<"llama3.3:latest">>
gpt4o == <<"gpt-4o">>
orGpt4 == <<"openai", "/", "gpt-4">>
llama2 == <<"llama2">>
haiku == <<"claude-3-haiku">>
NoModel == <<>>

\* field initialiser of currentModel
defaultModel == [p \in modelKeys |->
    CASE p = "openai" -> gpt35
      [] p = "openrouter" -> orGpt35
      [] p = "anthropic" -> claude2
      [] p = "ollama" -> llama33]

openaiModels == {<<"gpt-4o">>, <<"gpt-4o-mini">>, <<"gpt-4-turbo">>}
anthropicModels == {<<"claude-3-haiku">>, <<"claude-3-sonnet">>, <<"claude-3-opus">>,
                    <<"claude-3.5-haiku">>, <<"claude-3.5-sonnet">>}

\* args.model.includes('/')
includesSlash(m) == \E i \in 1..Len(m) : m[i] = "/"

(* ------------------------------ inputs -------------------------------- *)
\* args.provider of use_provider; "" stands for a missing argument
ProviderInputs == validProviders \cup {"chatgpt", ""}
\* args.message of chat; "" stands for a missing argument
MessageInputs == {"", "hello"}
\* args.model of use_model; NoModel stands for a missing argument
ModelInputs == {NoModel, gpt4o, orGpt4, llama2, haiku}
\* what a backend answers: a transport or status error, a body whose text
\* field is null, or a body with a text
BackendReplies == {[kind |-> "error", text |-> NoVal], [kind |-> "null", text |-> NoVal],
                   [kind |-> "text", text |-> "pong"]}
\* what GET /api/tags answers: connection refused, or the live model list
TagsReplies == {[refused |-> TRUE, models |-> {}]} \cup
               {[refused |-> FALSE, models |-> l] : l \in {{}, {llama2}, {llama2, llama33}}}
\* args.limit of get_memory: left out, null, or a number
Omitted == [kind |-> "omitted", n |-> 0]
Null == [kind |-> "null", n |-> 0]
Limit(n) == [kind |-> "number", n |-> n]
LimitInputs == {Omitted, Null} \cup {Limit(n) : n \in 0 .. MaxLimit}
\* the API keys the environment may hold at process start
KeySets == {{"openai"}, {"anthropic", "openrouter"}}
\* values of defaultProvider another program may write to the settings file
MirrorProviders == {NoVal, "ollama", "chatgpt"}

VARIABLES
    phase,            \* "constructed", "up" (serving), "failed" (run() rejected)
    keys,             \* providers whose API key is configured
    currentProvider,  \* this.currentProvider
    currentModel,     \* this.currentModel
    dbSetting,        \* value of the settings row current_provider, or NoVal
    memory,           \* rows of the memory table, in rowid order
    nextId,           \* next AUTOINCREMENT id
    clock,            \* CURRENT_TIMESTAMP of the store at its last INSERT
    mirror,           \* the external settings file
    chat,             \* slot of the chat call
    prov,             \* slot of the use_provider call
    model,            \* slot of the use_model call
    mem,              \* slot of the get_memory / clear_memory call
    lastSwitch,       \* the provider, if the last call sent was a use_provider that
                      \* returned its confirmation; NoVal otherwise
    boot,             \* what the startup that just completed saw and loaded
    calls,            \* tool calls sent so far
    restarts          \* restarts so far

vars == <<phase, keys, currentProvider, currentModel, dbSetting, memory, nextId,
          clock, mirror, chat, prov, model, mem, lastSwitch, boot, calls, restarts>>

(* ------------------------- the settings file -------------------------- *)
\* state: "unreadable" (absent, not JSON, or without mcpServers), "noserver"
\* (parses, has no letta-memgpt entry), "server" (has the entry)
noModels == [p \in modelKeys |-> NoModel]
MirrorUnreadable == [state |-> "unreadable", defaultProvider |-> NoVal, models |-> noModels]
MirrorNoServer == [state |-> "noserver", defaultProvider |-> NoVal, models |-> noModels]
MirrorServer(p) == [state |-> "server", defaultProvider |-> p, models |-> noModels]
MirrorInputs == {MirrorUnreadable, MirrorNoServer} \cup {MirrorServer(p) : p \in MirrorProviders}

\* the provider readSettingsFile leaves in this.currentProvider
readSettingsFile(m, cur) ==
    IF m.state = "server" /\ m.defaultProvider # NoVal THEN m.defaultProvider ELSE cur

\* the file after updateSettingsFile(provider); every failure is caught and logged
updateSettingsFile(m, provider, writeOk) ==
    IF m.state = "server" /\ writeOk THEN [m EXCEPT !.defaultProvider = provider] ELSE m

(* ------------------------------ slots --------------------------------- *)
IdleChat == [pc |-> "idle", message |-> "", via |-> NoVal, net |-> 0,
             outcome |-> NoVal, text |-> NoVal]
\* stored: the UPDATE of the settings row resolved; tried: updateSettingsFile
\* was called
IdleProv == [pc |-> "idle", provider |-> "", stored |-> FALSE, tried |-> FALSE,
             outcome |-> NoVal]
\* live: the model list GET /api/tags answered, {} if none was received;
\* before: this.currentModel when the call was taken up
IdleModel == [pc |-> "idle", model |-> NoModel, live |-> {}, before |-> defaultModel,
              outcome |-> NoVal]
IdleMem == [pc |-> "idle", op |-> NoVal, limit |-> Omitted, outcome |-> NoVal, rows |-> <<>>]
\* row: the settings row the startup found; offered: the provider the settings file
\* offered (NoVal if the file was unreadable, had no entry or no value); switched:
\* lastSwitch at the time; provider: the provider loaded
NoBoot == [done |-> FALSE, row |-> NoVal, file |-> "unreadable", offered |-> NoVal,
           switched |-> NoVal, provider |-> NoVal]

\* a call is sent: it counts, and it ends the stretch right after a startup or
\* a use_provider
Sent ==
    /\ calls < MaxCalls
    /\ calls' = calls + 1
    /\ boot' = NoBoot
    /\ UNCHANGED restarts

\* no call in flight and no result on its way to the caller
Idle == chat.pc = "idle" /\ prov.pc = "idle" /\ model.pc = "idle" /\ mem.pc = "idle"

Init ==
    /\ phase = "constructed"
    /\ keys \in KeySets
    /\ currentProvider = "openai"
    /\ currentModel = defaultModel
    /\ dbSetting = NoVal
    /\ memory = <<>>
    /\ nextId = 1
    /\ clock = 0
    /\ mirror \in MirrorInputs
    /\ chat = IdleChat
    /\ prov = IdleProv
    /\ model = IdleModel
    /\ mem = IdleMem
    /\ lastSwitch = NoVal
    /\ boot = NoBoot
    /\ calls = 0
    /\ restarts = 0

(* ------------------------------ startup ------------------------------- *)
\* a startup that lets the settings file win over an existing row
loadedProviderMirrorFirst(row, m, cur) ==
    IF m.state = "server" /\ m.defaultProvider # NoVal THEN m.defaultProvider
    ELSE IF row # NoVal THEN row ELSE cur

\* the provider initializeDatabase leaves in memory when the store works:
\* the row's value if the row exists, else what readSettingsFile left
loadedProvider(row, m, cur) ==
    IF row # NoVal THEN row ELSE readSettingsFile(m, cur)

\* a startup that takes the models recorded in the settings file
loadedModelsFromMirror(models, m) ==
    [p \in DOMAIN models |->
        IF m.state = "server" /\ m.models[p] # NoModel THEN m.models[p] ELSE models[p]]

\* the models in memory after readSettingsFile, which reads defaultProvider
\* only: the models entry of the file is never read
loadedModels(models, m) == models

\* a startup that drops the memory table before creating it
createMemoryTableAfresh(rows) == <<>>

\* CREATE TABLE IF NOT EXISTS memory: existing rows stay
createMemoryTable(rows) == rows

\* run() -> initialize() -> initializeDatabase()
initializeDatabase ==
    /\ phase = "constructed"
    /\ currentModel' = loadedModels(currentModel, mirror)
    /\ \E dbOk \in BOOLEAN :
        IF dbOk
        THEN /\ currentProvider' = loadedProvider(dbSetting, mirror, currentProvider)
             /\ memory' = createMemoryTable(memory)
             /\ dbSetting' = currentProvider'
             /\ phase' = "up"
             /\ boot' = [done |-> TRUE, row |-> dbSetting, file |-> mirror.state,
                         offered |-> mirror.defaultProvider, switched |-> lastSwitch,
                         provider |-> currentProvider']
        ELSE /\ currentProvider' = readSettingsFile(mirror, currentProvider)
             /\ phase' = "failed"
             /\ UNCHANGED <<dbSetting, memory, boot>>
    /\ UNCHANGED <<keys, nextId, clock, mirror, chat, prov, model, mem, lastSwitch,
                   calls, restarts>>

\* the process ends (at any point) and a new one is constructed
Restart ==
    /\ phase \in {"up", "failed"}
    /\ restarts < MaxRestarts
    /\ restarts' = restarts + 1
    /\ phase' = "constructed"
    /\ keys' \in KeySets
    /\ currentProvider' = "openai"
    /\ currentModel' = defaultModel
    /\ chat' = IdleChat
    /\ prov' = IdleProv
    /\ model' = IdleModel
    /\ mem' = IdleMem
    /\ boot' = NoBoot
    /\ UNCHANGED <<dbSetting, memory, nextId, clock, mirror, lastSwitch, calls>>

(* ---------------------------- use_provider ---------------------------- *)
\* lines 264-281: argument checks, then this.currentProvider = args.provider
handleUseProviderBegin(p) ==
    /\ phase = "up"
    /\ prov.pc = "idle"
    /\ IF p = "" \/ p \notin validProviders
       THEN /\ prov' = [IdleProv EXCEPT !.pc = "done", !.provider = p,
                                        !.outcome = "InvalidParams"]
            /\ UNCHANGED currentProvider
       ELSE /\ currentProvider' = p
            /\ prov' = [IdleProv EXCEPT !.pc = "db", !.provider = p]
    /\ lastSwitch' = NoVal
    /\ Sent
    /\ UNCHANGED <<phase, keys, currentModel, dbSetting, memory, nextId, clock, mirror,
                   chat, model, mem>>

\* an UPDATE that never reaches the row
updateSettingLost(row, p) == row

\* the settings row after UPDATE settings SET value = ? WHERE key = 'current_provider'
updateSetting(row, p) == IF row # NoVal THEN p ELSE row

\* a handler that goes on to the settings file after a rejected UPDATE
afterUpdateErrorIgnored(dbOk) == "mirror"

\* await new Promise(... if (err) reject(err); else resolve() ...): a rejection
\* leaves the handler, a resolution goes on to updateSettingsFile
afterUpdate(dbOk) == IF dbOk THEN "mirror" ELSE "done"

\* lines 283-293: the UPDATE resolves or rejects
handleUseProviderDb ==
    /\ prov.pc = "db"
    /\ \E dbOk \in BOOLEAN :
        /\ dbSetting' = IF dbOk THEN updateSetting(dbSetting, prov.provider)
                               ELSE dbSetting
        /\ prov' = IF afterUpdate(dbOk) = "mirror"
                   THEN [prov EXCEPT !.pc = "mirror", !.stored = dbOk]
                   ELSE [prov EXCEPT !.pc = "done", !.outcome = "InternalError"]
    /\ UNCHANGED <<phase, keys, currentProvider, currentModel, memory, nextId, clock,
                   mirror, chat, model, mem, lastSwitch, boot, calls, restarts>>

\* lines 295-305: updateSettingsFile, then the confirmation is returned
handleUseProviderMirror ==
    /\ prov.pc = "mirror"
    /\ \E writeOk \in BOOLEAN :
        mirror' = updateSettingsFile(mirror, prov.provider, writeOk)
    /\ prov' = [prov EXCEPT !.pc = "done", !.tried = TRUE, !.outcome = "ok"]
    /\ lastSwitch' = prov.provider
    /\ UNCHANGED <<phase, keys, currentProvider, currentModel, dbSetting, memory, nextId,
                   clock, chat, model, mem, boot, calls, restarts>>

(* -------------------------------- chat -------------------------------- *)
\* a query function without its key check
keyCheckSkipped(p, ks) == TRUE

\* if (!this.openaiKey) ... in queryOpenAI, queryAnthropic, queryOpenRouter
keyConfigured(p, ks) == p \in ks

\* an INSERT with prompt and response bound to each other's column
storeMemorySwapped(rows, prompt, response, provider, id, now) ==
    Append(rows, [id |-> id, userId |-> DEFAULT_USER, prompt |-> response,
                  response |-> prompt, timestamp |-> now, provider |-> provider])

\* INSERT INTO memory (userId, prompt, response, provider): the store assigns
\* the id and the timestamp
storeMemory(rows, prompt, response, provider, id, now) ==
    Append(rows, [id |-> id, userId |-> DEFAULT_USER, prompt |-> prompt,
                  response |-> response, timestamp |-> now, provider |-> provider])

\* lines 308-336 up to the first await: argument check, dispatch on the current
\* provider, the key check of the query function, the first request sent
handleChatBegin(msg) ==
    /\ phase = "up"
    /\ chat.pc = "idle"
    /\ LET fail(code) == [pc |-> "done", message |-> msg, via |-> NoVal, net |-> 0,
                          outcome |-> code, text |-> NoVal]
           sent(pc) == [pc |-> pc, message |-> msg, via |-> currentProvider, net |-> 1,
                        outcome |-> NoVal, text |-> NoVal]
       IN  chat' =
             IF msg = "" THEN fail("InvalidParams")
             ELSE IF currentProvider \in keyProviders
                  THEN IF keyConfigured(currentProvider, keys)
                       THEN sent("backend")
                       ELSE fail("InternalError")
             ELSE IF currentProvider = "ollama" THEN sent("tags")
             ELSE fail("InternalError")
    /\ lastSwitch' = NoVal
    /\ Sent
    /\ UNCHANGED <<phase, keys, currentProvider, currentModel, dbSetting, memory, nextId,
                   clock, mirror, prov, model, mem, lastSwitch>>

\* queryOllama, lines 576-594: the model list arrives; the generate request is
\* sent if the current ollama model is in it
handleChatTags ==
    /\ chat.pc = "tags"
    /\ \E reply \in TagsReplies :
        chat' = IF ~reply.refused /\ currentModel["ollama"] \in reply.models
                THEN [chat EXCEPT !.pc = "backend", !.net = @ + 1]
                ELSE [chat EXCEPT !.pc = "done", !.outcome = "InternalError"]
    /\ UNCHANGED <<phase, keys, currentProvider, currentModel, dbSetting, memory, nextId,
                   clock, mirror, prov, model, mem, lastSwitch, boot, calls, restarts>>

\* the text the query function of provider via returns for a reply, NoVal where
\* it throws: an error reply throws; a null text is returned as it is by the
\* key providers (lines 526, 548, 570) and throws in queryOllama (lines 597-601)
extractText(via, reply) ==
    IF reply.kind = "error" THEN [threw |-> TRUE, text |-> NoVal]
    ELSE IF reply.kind = "null"
         THEN [threw |-> via = "ollama", text |-> NoVal]
    ELSE [threw |-> FALSE, text |-> reply.text]

\* whether the INSERT of storeMemory resolves: the engine works and the
\* response is not null (response TEXT NOT NULL)
insertResolves(text, dbOk) == dbOk /\ text # NoVal

\* a storeMemory whose rejection is not awaited
storeErrorSwallowed(inserted) == TRUE

\* whether handleChat goes on to return after await this.storeMemory(...):
\* a rejected INSERT rejects the promise and the await throws
storeAwaited(inserted) == inserted

\* the backend's reply arrives: lines 338-354, storeMemory with the provider
\* current now, then the response is returned or the error rethrown
handleChatReply ==
    /\ chat.pc = "backend"
    /\ \E reply \in BackendReplies, dbOk \in BOOLEAN :
        LET got == extractText(chat.via, reply)
            inserted == ~got.threw /\ insertResolves(got.text, dbOk)
            returned == ~got.threw /\ storeAwaited(inserted)
        IN  /\ IF inserted
               THEN \E now \in clock .. MaxClock :
                    /\ memory' = storeMemory(memory, chat.message, got.text,
                                              currentProvider, nextId, now)
                    /\ nextId' = nextId + 1
                    /\ clock' = now
               ELSE UNCHANGED <<memory, nextId, clock>>
            /\ chat' = IF returned
                       THEN [chat EXCEPT !.pc = "done", !.outcome = "ok",
                                         !.text = got.text]
                       ELSE [chat EXCEPT !.pc = "done", !.outcome = "InternalError"]
    /\ UNCHANGED <<phase, keys, currentProvider, currentModel, dbSetting, mirror,
                   prov, model, mem, lastSwitch, boot, calls, restarts>>

(* ------------------------ get_memory, clear_memory -------------------- *)
\* the orders SELECT * FROM memory ORDER BY timestamp DESC may return the rows
\* in: rows of equal timestamp come in an order SQL leaves open
orderByTimestampDesc(rows) ==
    LET n == Len(rows)
    IN  { s \in { [i \in 1..n |-> rows[f[i]]] : f \in Permutations(1..n) } :
            \A i, j \in 1..n : i < j => s[i].timestamp >= s[j].timestamp }

\* params of the query: [args.limit || 10]
limitParam(limit) ==
    IF limit.kind = "omitted" \/ limit.n = 0 THEN DEFAULT_LIMIT ELSE limit.n

firstRows(s, k) == IF Len(s) <= k THEN s ELSE SubSeq(s, 1, k)

\* lines 359-362: what the query returns
selectMemory(rows, limit) ==
    IF limit.kind = "null"
    THEN orderByTimestampDesc(rows)
    ELSE { firstRows(s, limitParam(limit)) : s \in orderByTimestampDesc(rows) }

handleGetMemory(limit) ==
    /\ phase = "up"
    /\ mem.pc = "idle"
    /\ \E dbOk \in BOOLEAN :
        IF dbOk
        THEN \E rows \in selectMemory(memory, limit) :
                mem' = [pc |-> "done", op |-> "get_memory", limit |-> limit,
                        outcome |-> "ok", rows |-> rows]
        ELSE mem' = [pc |-> "done", op |-> "get_memory", limit |-> limit,
                     outcome |-> "InternalError", rows |-> <<>>]
    /\ lastSwitch' = NoVal
    /\ Sent
    /\ UNCHANGED <<phase, keys, currentProvider, currentModel, dbSetting, memory, nextId,
                   clock, mirror, chat, prov, model, lastSwitch>>

\* a DELETE that spares the newest row
deleteAllButNewest(rows) == IF rows = <<>> THEN rows ELSE <<rows[Len(rows)]>>

\* the memory table after DELETE FROM memory
deleteFromMemory(rows) == <<>>

handleClearMemory ==
    /\ phase = "up"
    /\ mem.pc = "idle"
    /\ \E dbOk \in BOOLEAN :
        IF dbOk
        THEN /\ memory' = deleteFromMemory(memory)
             /\ mem' = [pc |-> "done", op |-> "clear_memory", limit |-> Omitted,
                         outcome |-> "ok", rows |-> <<>>]
        ELSE /\ mem' = [pc |-> "done", op |-> "clear_memory", limit |-> Omitted,
                         outcome |-> "InternalError", rows |-> <<>>]
             /\ UNCHANGED memory
    /\ lastSwitch' = NoVal
    /\ Sent
    /\ UNCHANGED <<phase, keys, currentProvider, currentModel, dbSetting, nextId, clock,
                   mirror, chat, prov, model, lastSwitch>>

(* ------------------------------ use_model ----------------------------- *)
\* a validation whose openrouter branch lets every name through
acceptsModelNoSlashCheck(p, m) ==
    CASE p = "openai" -> m \in openaiModels
      [] p = "openrouter" -> TRUE
      [] p = "anthropic" -> m \in anthropicModels
      [] OTHER -> FALSE

\* lines 411-456, the branches that validate without a request
acceptsModel(p, m) ==
    CASE p = "openai" -> m \in openaiModels
      [] p = "openrouter" -> includesSlash(m)
      [] p = "anthropic" -> m \in anthropicModels
      [] OTHER -> FALSE

\* this.currentModel[this.currentProvider] = args.model
setModel(models, p, m) == [q \in DOMAIN models \cup {p} |-> IF q = p THEN m ELSE models[q]]

\* lines 401-459 up to the first await
handleUseModelBegin(m) ==
    /\ phase = "up"
    /\ model.pc = "idle"
    /\ IF m = NoModel
       THEN /\ model' = [pc |-> "done", model |-> m, live |-> {},
                          before |-> currentModel, outcome |-> "InvalidParams"]
            /\ UNCHANGED currentModel
       ELSE IF currentProvider = "ollama"
       THEN /\ model' = [pc |-> "tags", model |-> m, live |-> {},
                          before |-> currentModel, outcome |-> NoVal]
            /\ UNCHANGED currentModel
       ELSE IF acceptsModel(currentProvider, m)
       THEN /\ currentModel' = setModel(currentModel, currentProvider, m)
            /\ model' = [pc |-> "mirror", model |-> m, live |-> {},
                          before |-> currentModel, outcome |-> NoVal]
       ELSE /\ model' = [pc |-> "done", model |-> m, live |-> {},
                          before |-> currentModel, outcome |-> "InternalError"]
            /\ UNCHANGED currentModel
    /\ lastSwitch' = NoVal
    /\ Sent
    /\ UNCHANGED <<phase, keys, currentProvider, dbSetting, memory, nextId, clock,
                   mirror, chat, prov, mem, lastSwitch>>

\* lines 426-459: the live model list arrives
handleUseModelTags ==
    /\ model.pc = "tags"
    /\ \E reply \in TagsReplies :
        IF ~reply.refused /\ model.model \in reply.models
        THEN /\ currentModel' = setModel(currentModel, currentProvider, model.model)
             /\ model' = [model EXCEPT !.pc = "mirror", !.live = reply.models]
        ELSE /\ model' = [model EXCEPT !.pc = "done", !.live = reply.models,
                                        !.outcome = "InternalError"]
             /\ UNCHANGED currentModel
    /\ UNCHANGED <<phase, keys, currentProvider, dbSetting, memory, nextId, clock,
                   mirror, chat, prov, mem, lastSwitch, boot, calls, restarts>>

\* lines 461-487: the settings file is read and rewritten; a read or write
\* error is caught by the handler's catch and rethrown
handleUseModelMirror ==
    /\ model.pc = "mirror"
    /\ \E writeOk \in BOOLEAN :
        IF mirror.state = "unreadable" \/ (mirror.state = "server" /\ ~writeOk)
        THEN /\ model' = [model EXCEPT !.pc = "done", !.outcome = "InternalError"]
             /\ UNCHANGED mirror
        ELSE /\ model' = [model EXCEPT !.pc = "done", !.outcome = "ok"]
             /\ mirror' = IF mirror.state = "server"
                          THEN [mirror EXCEPT !.models =
                                   setModel(@, currentProvider, model.model)]
                          ELSE mirror
    /\ UNCHANGED <<phase, keys, currentProvider, currentModel, dbSetting, memory, nextId,
                   clock, chat, prov, mem, lastSwitch, boot, calls, restarts>>

(* ----------------------------- environment ---------------------------- *)
\* the caller receives the result of its call
Deliver ==
    /\ \/ chat.pc = "done" /\ chat' = IdleChat /\ UNCHANGED <<prov, model, mem>>
       \/ prov.pc = "done" /\ prov' = IdleProv /\ UNCHANGED <<chat, model, mem>>
       \/ model.pc = "done" /\ model' = IdleModel /\ UNCHANGED <<chat, prov, mem>>
       \/ mem.pc = "done" /\ mem' = IdleMem /\ UNCHANGED <<chat, prov, model>>
    /\ UNCHANGED <<phase, keys, currentProvider, currentModel, dbSetting, memory, nextId,
                   clock, mirror, lastSwitch, boot, calls, restarts>>

\* another program rewrites, removes or damages the settings file
MirrorEdit ==
    /\ Idle
    /\ mirror' \in MirrorInputs \ {mirror}
    /\ UNCHANGED <<phase, keys, currentProvider, currentModel, dbSetting, memory, nextId,
                   clock, chat, prov, model, mem, lastSwitch, boot, calls, restarts>>

(* --------------------------- specification ---------------------------- *)
\* the caller sends a call when it has the result of the one before
Next ==
    \/ initializeDatabase
    \/ Restart
    \/ Idle /\ \E p \in ProviderInputs : handleUseProviderBegin(p)
    \/ handleUseProviderDb
    \/ handleUseProviderMirror
    \/ Idle /\ \E msg \in MessageInputs : handleChatBegin(msg)
    \/ handleChatTags
    \/ handleChatReply
    \/ Idle /\ \E limit \in LimitInputs : handleGetMemory(limit)
    \/ Idle /\ handleClearMemory
    \/ Idle /\ \E m \in ModelInputs : handleUseModelBegin(m)
    \/ handleUseModelTags
    \/ handleUseModelMirror
    \/ Deliver
    \/ MirrorEdit

Spec == Init /\ [][Next]_vars

\* the dispatcher takes up a call whenever it arrives: handlers of different
\* tools overlap at their awaits
NextAsync ==
    \/ initializeDatabase
    \/ Restart
    \/ \E p \in ProviderInputs : handleUseProviderBegin(p)
    \/ handleUseProviderDb
    \/ handleUseProviderMirror
    \/ \E msg \in MessageInputs : handleChatBegin(msg)
    \/ handleChatTags
    \/ handleChatReply
    \/ \E limit \in LimitInputs : handleGetMemory(limit)
    \/ handleClearMemory
    \/ \E m \in ModelInputs : handleUseModelBegin(m)
    \/ handleUseModelTags
    \/ handleUseModelMirror
    \/ Deliver
    \/ MirrorEdit

SpecAsync == Init /\ [][NextAsync]_vars

(* ------------------------------- claims ------------------------------- *)
\* the four registered provider identifiers, as the specification lists them
Registered == {"openai", "anthropic", "openrouter", "ollama"}

\* C1: once the server is up, whatever calls and restarts came before, the
\* current provider in memory is one of the four registered identifiers.
C1_ProviderIsRegistered == phase = "up" => currentProvider \in Registered

\* C2: a chat call that returns a response text has, when it returns, a stored
\* Exchange with that prompt and response as the newest row; a chat whose
\* append failed reports failure and returns no text.
C2_ReturnedResponseIsStored ==
    (chat.pc = "done" /\ (chat.outcome = "ok" \/ chat.text # NoVal)) =>
        /\ chat.outcome = "ok"
        /\ chat.text # NoVal
        /\ Len(memory) > 0
        /\ memory[Len(memory)].prompt = chat.message
        /\ memory[Len(memory)].response = chat.text

C2_Witness == chat.pc = "done" /\ chat.outcome = "ok" /\ chat.text = "pong"

\* C3, as claimed: a completed startup adopts the provider the settings file
\* offers even when the settings row holds another value, else the row's
\* value, else "openai".
C3_MirrorBeforeRow ==
    boot.done =>
        boot.provider = IF boot.file = "server" /\ boot.offered # NoVal THEN boot.offered
                        ELSE IF boot.row # NoVal THEN boot.row
                        ELSE "openai"

\* C3, amended: a completed startup loads the value of the settings row if the
\* row exists; otherwise the provider the settings file offers, if it offers
\* one; otherwise "openai"; and in the last two cases that value is written
\* to the row.
C3_RowBeforeMirror ==
    boot.done =>
        /\ boot.provider = IF boot.row # NoVal THEN boot.row
                           ELSE IF boot.file = "server" /\ boot.offered # NoVal
                                THEN boot.offered
                           ELSE "openai"
        /\ currentProvider = boot.provider
        /\ dbSetting = boot.provider

C3_Witness ==
    /\ boot.done
    /\ boot.row = "anthropic"
    /\ boot.file = "server"
    /\ boot.offered = "ollama"
    /\ currentProvider = "anthropic"

\* C4: when the last call before a restart was a use_provider(p) that returned
\* its confirmation and the startup finds no readable settings file, the
\* provider loaded is p.
C4_ProviderSurvivesRestart ==
    (boot.done /\ boot.switched # NoVal /\ boot.file = "unreadable") =>
        (boot.provider = boot.switched /\ currentProvider = boot.switched)

C4_Witness ==
    /\ boot.done
    /\ boot.switched = "ollama"
    /\ boot.file = "unreadable"
    /\ currentProvider = "ollama"

\* C5: a use_provider call with an identifier outside the four registered ones
\* ends with InvalidParams in the step that takes it up, and that step leaves
\* the provider in memory, the settings row and the settings file as they were.
C5_UnregisteredRejected ==
    [][(prov.pc = "idle" /\ prov'.pc # "idle" /\ prov'.provider \notin Registered) =>
          /\ prov'.pc = "done"
          /\ prov'.outcome = "InvalidParams"
          /\ currentProvider' = currentProvider
          /\ dbSetting' = dbSetting
          /\ mirror' = mirror]_vars

C5_Witness ==
    prov.pc = "done" /\ prov.provider = "chatgpt" /\ prov.outcome = "InvalidParams"

\* C6: the step that ends a chat call with success appends exactly one row,
\* holding the call's message as prompt, the returned text as response and
\* the current provider; every other step of a chat call leaves the rows as
\* they were.
C6_ChatAppendsOne ==
    [][(chat.pc # "done" /\ (chat.pc # "idle" \/ chat'.pc # "idle")) =>
          IF chat'.pc = "done" /\ chat'.outcome = "ok"
          THEN /\ Len(memory') = Len(memory) + 1
               /\ SubSeq(memory', 1, Len(memory)) = memory
               /\ memory'[Len(memory')].prompt = chat'.message
               /\ memory'[Len(memory')].response = chat'.text
               /\ memory'[Len(memory')].provider = currentProvider
          ELSE memory' = memory]_vars

C6_Witness ==
    /\ chat.pc = "done"
    /\ chat.outcome = "ok"
    /\ Len(memory) = 1
    /\ memory[1].provider = "anthropic"
    /\ memory[1].prompt = "hello"
    /\ memory[1].response = "pong"

\* C7: a chat call with a message, taken up while the current provider is one
\* of openai, anthropic, openrouter and its key is not configured, ends at once
\* with InternalError, has sent no request and leaves the rows as they were.
C7_MissingKeyFailsBeforeNetwork ==
    [][(chat.pc = "idle" /\ chat'.pc # "idle" /\ chat'.message # ""
          /\ currentProvider \in {"openai", "anthropic", "openrouter"}
          /\ currentProvider \notin keys) =>
          /\ chat'.pc = "done"
          /\ chat'.outcome = "InternalError"
          /\ chat'.net = 0
          /\ chat'.text = NoVal
          /\ memory' = memory]_vars

C7_Witness ==
    /\ chat.pc = "done"
    /\ chat.message = "hello"
    /\ chat.outcome = "InternalError"
    /\ chat.net = 0
    /\ currentProvider = "anthropic"
    /\ "anthropic" \notin keys

\* newest first: descending timestamp, equal timestamps by descending id
NewestFirst(rows) ==
    \A i, j \in 1..Len(rows) : i < j =>
        \/ rows[i].timestamp > rows[j].timestamp
        \/ rows[i].timestamp = rows[j].timestamp /\ rows[i].id > rows[j].id

\* C8: what get_memory returns is ordered by descending timestamp, equal
\* timestamps by descending id, and with limit 1 it is the newest row.
C8_NewestFirst ==
    (mem.pc = "done" /\ mem.op = "get_memory" /\ mem.outcome = "ok") =>
        /\ NewestFirst(mem.rows)
        /\ (mem.limit = Limit(1) /\ Len(memory) > 0) =>
               mem.rows = <<memory[Len(memory)]>>

\* C9: get_memory with a number n >= 0 as limit returns at most n rows, with
\* null every row, with no limit at most 10.
C9_LimitRespected ==
    (mem.pc = "done" /\ mem.op = "get_memory" /\ mem.outcome = "ok") =>
        CASE mem.limit.kind = "number" -> Len(mem.rows) <= mem.limit.n
          [] mem.limit.kind = "null" -> Len(mem.rows) = Len(memory)
          [] OTHER -> Len(mem.rows) <= 10

\* C10: when clear_memory has returned its confirmation the store is empty,
\* whether or not it held rows before; and get_memory with null on the empty
\* store returns the empty sequence.
C10_ClearEmpties ==
    /\ (mem.pc = "done" /\ mem.op = "clear_memory" /\ mem.outcome = "ok") =>
            memory = <<>>
    /\ (mem.pc = "done" /\ mem.op = "get_memory" /\ mem.outcome = "ok"
          /\ mem.limit = Null /\ memory = <<>>) => mem.rows = <<>>

\* rows were stored once (ids were given out), the store is empty again, and
\* get_memory with null has returned the empty sequence
C10_Witness ==
    /\ mem.pc = "done"
    /\ mem.op = "get_memory"
    /\ mem.limit = Null
    /\ mem.outcome = "ok"
    /\ mem.rows = <<>>
    /\ nextId > 1

\* the validation rule of provider p for model m, live being the model list the
\* local service answered, as the specification states it
PassesRule(p, m, live) ==
    CASE p = "openai" -> m \in {<<"gpt-4o">>, <<"gpt-4o-mini">>, <<"gpt-4-turbo">>}
      [] p = "anthropic" -> m \in {<<"claude-3-haiku">>, <<"claude-3-sonnet">>,
                                   <<"claude-3-opus">>, <<"claude-3.5-haiku">>,
                                   <<"claude-3.5-sonnet">>}
      [] p = "openrouter" -> \E i \in DOMAIN m : m[i] = "/"
      [] p = "ollama" -> m \in live
      [] OTHER -> FALSE

\* C11: the step that decides a use_model(m) call stores m as the current model
\* of the current provider, leaving every other provider's model as it was, if
\* m passes the current provider's rule (closed list for openai and anthropic,
\* a "/" for openrouter, the live list for ollama); otherwise it ends the call
\* with an error and changes no model.
C11_AcceptedIffValid ==
    [][(model.pc \in {"idle", "tags"} /\ model'.pc \in {"mirror", "done"}) =>
          IF model'.model # NoModel
             /\ PassesRule(currentProvider, model'.model, model'.live)
          THEN /\ model'.pc = "mirror"
               /\ currentModel' = [currentModel EXCEPT ![currentProvider] = model'.model]
          ELSE /\ model'.pc = "done"
               /\ model'.outcome \in {"InvalidParams", "InternalError"}
               /\ currentModel' = currentModel]_vars

C11_Witness ==
    /\ model.pc = "done"
    /\ model.outcome = "ok"
    /\ currentProvider = "openrouter"
    /\ currentModel = [defaultModel EXCEPT !["openrouter"] = orGpt4]

\* C12: a use_model call that has ended and whose model does not pass the
\* current provider's rule was answered with the invalid-params error, not with
\* the internal error.
C12_InvalidModelIsInvalidParams ==
    (/\ model.pc = "done"
     /\ model.model # NoModel
     /\ ~PassesRule(currentProvider, model.model, model.live))
        => model.outcome = "InvalidParams"

\* C13: a use_provider call with a registered provider whose settings-row
\* UPDATE resolved, and a use_model call with a model that passes the current
\* provider's rule, end with success, whatever happened to the settings file.
C13_MirrorNeverFailsCall ==
    /\ (prov.pc = "done" /\ prov.provider \in Registered /\ prov.stored)
          => prov.outcome = "ok"
    /\ (/\ model.pc = "done"
        /\ model.model # NoModel
        /\ PassesRule(currentProvider, model.model, model.live))
          => model.outcome = "ok"

\* the current provider needs a secret that the environment did not supply
SecretAbsent ==
    /\ currentProvider \in {"openai", "anthropic", "openrouter"}
    /\ currentProvider \notin keys

\* C14 as stated: on a started server whose current provider lacks its secret,
\* every chat call and every use_model call that has ended has failed.
C14_CallsFailWithoutSecret ==
    /\ (chat.pc = "done" /\ SecretAbsent) => chat.outcome # "ok"
    /\ (model.pc = "done" /\ SecretAbsent) => model.outcome # "ok"

\* C14: on a started server whose current provider lacks its secret, every chat
\* call that has ended has failed: it returned an error and no text, and sent
\* no request.
C14_ChatFailsWithoutSecret ==
    (chat.pc = "done" /\ SecretAbsent) =>
        /\ chat.outcome \in {"InvalidParams", "InternalError"}
        /\ chat.text = NoVal
        /\ chat.net = 0

C14_Witness ==
    /\ phase = "up"
    /\ currentProvider = "anthropic"
    /\ "anthropic" \notin keys
    /\ chat.pc = "done"
    /\ chat.message = "hello"
    /\ chat.outcome = "InternalError"

\* C15: once the startup load has completed, and whenever a use_provider call
\* has ended (with success or with an error), the provider held in memory
\* equals the value of the current_provider row.
C15_MemoryEqualsRow ==
    /\ boot.done => currentProvider = dbSetting
    /\ prov.pc = "done" => currentProvider = dbSetting

C17_RowThenMirrorThenReply ==
    [][/\ (prov' # prov /\ prov'.pc # "idle" /\ mirror' # mirror)
            => (prov.stored /\ dbSetting = prov.provider /\ prov'.tried)
       /\ (prov.outcome # "ok" /\ prov'.outcome = "ok")
            => (prov.stored /\ prov'.stored /\ prov'.tried /\ dbSetting = prov.provider)
       /\ (prov.pc = "db" /\ prov'.pc = "done")
            => (/\ ~prov'.stored
                /\ ~prov'.tried
                /\ prov'.outcome = "InternalError"
                /\ mirror' = mirror
                /\ dbSetting' = dbSetting)]_vars

\* a successful use_provider that rewrote the settings file
C17_Witness ==
    /\ prov.pc = "done"
    /\ prov.outcome = "ok"
    /\ prov.provider = "anthropic"
    /\ dbSetting = "anthropic"
    /\ mirror.state = "server"
    /\ mirror.defaultProvider = "anthropic"

\* C18: every step either leaves the rows as they are, or is the end of a chat
\* call and appends one row after the unchanged earlier rows, or is a
\* clear_memory call and removes all rows at once; steps of use_provider,
\* use_model and get_memory calls leave the rows as they are.
C18_AppendOnlyUntilCleared ==
    [][/\ \/ memory' = memory
          \/ /\ chat.pc = "backend" /\ chat'.pc = "done"
             /\ Len(memory') = Len(memory) + 1
             /\ SubSeq(memory', 1, Len(memory)) = memory
          \/ /\ mem.pc = "idle" /\ mem'.pc = "done" /\ mem'.op = "clear_memory"
             /\ memory' = <<>>
       /\ (\/ prov' # prov
           \/ model' # model
           \/ (mem' # mem /\ mem'.op = "get_memory"))
            => memory' = memory]_vars

\* two rows were stored and a clear_memory removed both
C18_Witness ==
    /\ mem.pc = "done"
    /\ mem.op = "clear_memory"
    /\ mem.outcome = "ok"
    /\ nextId = 3
    /\ memory = <<>>

\* C19: the end of a process and the startup that follows it leave every stored
\* row, the next row id and the value of an existing current_provider row as
\* they were, whether the startup succeeds or fails.
C19_StartupKeepsStore ==
    [][(phase' # phase /\ "constructed" \in {phase, phase'}) =>
          /\ memory' = memory
          /\ nextId' = nextId
          /\ dbSetting # NoVal => dbSetting' = dbSetting]_vars

\* a second startup on a store with a row and a provider, the settings file
\* naming another provider
C19_Witness ==
    /\ boot.done
    /\ restarts > 0
    /\ boot.row = "anthropic"
    /\ boot.offered = "ollama"
    /\ dbSetting = "anthropic"
    /\ Len(memory) = 1

\* C20: when a chat call has returned its text, the newest row (the one the
\* call stored, unless the rows were cleared since) records the provider whose
\* backend the call queried, also when other calls were handled meanwhile.
C20_RecordedProviderIsBackend ==
    (chat.pc = "done" /\ chat.outcome = "ok" /\ memory # <<>>) =>
        memory[Len(memory)].provider = chat.via

\* C21: in every state, the current model of each registered provider is the
\* provider's compiled-in default or a value that passes the provider's own
\* rule (for ollama: a name that a model list of the local service contains),
\* also when a use_provider call was handled during a use_model call's lookup.
C21_ModelsPassOwnRule ==
    \A p \in Registered :
        \/ currentModel[p] = [openai |-> <<"gpt-3.5-turbo">>,
                              openrouter |-> <<"openai", "/", "gpt-3.5-turbo">>,
                              anthropic |-> <<"claude-2">>,
                              ollama |-> <<"llama3.3:latest">>][p]
        \/ PassesRule(p, currentModel[p], UNION {r.models : r \in TagsReplies})

\* C22: when a use_model call has ended with an error, whatever the reason,
\* every provider's current model is what it was when the call was taken up.
C22_FailedUseModelChangesNothing ==
    (model.pc = "done" /\ model.outcome # "ok") => currentModel = model.before

====
